---- MODULE Spec2Model ----
(***************************************************************************)
(* A model of pyxtal/interface/gulp.py: the GULP calculator (write,        *)
(* execute, read, clean), single_optimize and optimize.                    *)
(*                                                                         *)
(* A text file is a sequence of lines and a line is the sequence of its    *)
(* whitespace-delimited tokens (what line.split() returns).  Python's      *)
(* zero-based index k of a list is index k+1 here.                         *)
(***************************************************************************)
EXTENDS Integers, Sequences, FiniteSets, TLC

VARIABLES
    rst,        \* GULP.read in progress: the scan's position, locals and object
    fs,         \* the file system: file name -> content, for the files that exist
    calc,       \* the GULP object of each caller
    pc,         \* each caller's position in GULP.run
    made,       \* per caller, what its last execute created (output, dump)
    chain,      \* the locals of optimize(): arguments, loop index, struc, time_total
    trace,      \* the operations performed so far, in order
    result,     \* what optimize() returned
    build       \* what this build's np.array does with rows of different lengths

vars == <<rst, fs, calc, pc, made, chain, trace, result, build>>

(***************************************************************************)
(* Bounds of the model.                                                    *)
(***************************************************************************)
MaxSegs == 2        \* an output file is made of at most MaxSegs report sections
MaxStages == 3      \* optimize() is called with at most MaxStages (mode, opt) pairs

(***************************************************************************)
(* Values.  A Python float, or None, is a record: [k |-> "num", v |-> n],  *)
(* [k |-> "nan"] or [k |-> "none"] (v is 0 in the last two).               *)
(***************************************************************************)
Num(n) == [k |-> "num", v |-> n]
NaN == [k |-> "nan", v |-> 0]
None == [k |-> "none", v |-> 0]
Raise == [k |-> "raise", v |-> 0]

Sentinel == 100000

\* float(tok): the tokens the model's files use.  Anything else is a ValueError.
FloatOf(tok) ==
    CASE tok = "0" -> Num(0)
      [] tok = "1" -> Num(1)
      [] tok = "2" -> Num(2)
      [] tok = "3" -> Num(3)
      [] tok = "-7" -> Num(-7)
      [] tok = "-9" -> Num(-9)
      [] tok = "1.0" -> Num(1)
      [] tok = "NaN" -> NaN
      [] OTHER -> Raise

\* int(tok): int() takes neither "1.0" nor "NaN".
IntOf(tok) ==
    IF tok \in {"1.0", "NaN"} THEN Raise ELSE FloatOf(tok)

\* a variant of IsNan that answers "false" for None instead of raising
IsNanNoneIsNumber(x) ==
    IF x.k = "nan" THEN "true" ELSE "false"

\* np.isnan(x): a TypeError for None.
IsNan(x) ==
    CASE x.k = "nan" -> "true"
      [] x.k = "num" -> "false"
      [] OTHER -> "raise"

\* line.find(phrase) != -1, for a phrase of whole tokens
Contains(line, phrase) ==
    \E j \in 1..(Len(line) - Len(phrase) + 1) :
        SubSeq(line, j, j + Len(phrase) - 1) = phrase

\* re.match(r'\s*Total lattice energy\s*=\s*(\S+)\s*eV', line)
EnergyMatch(line) ==
    /\ Len(line) >= 6
    /\ SubSeq(line, 1, 4) = <<"Total", "lattice", "energy", "=">>
    /\ line[6] = "eV"

\* lines[s].find("------------") != -1
DashTokens == {"------------", "--------------------"}
IsDashed(line) == \E j \in 1..Len(line) : line[j] \in DashTokens

(***************************************************************************)
(* GULP.read.  The scan is a state: the lines read from the output file,   *)
(* the index i of the for loop, the index s and the lists positions and    *)
(* species of the while loop, and the object being filled.  phase is       *)
(* "scan" in the for loop, "block" inside the while loop and "done" once   *)
(* read has returned; caught tells whether the except branch ran.          *)
(* np_ragged is what this build's np.array does with rows of different     *)
(* lengths: "raise" a ValueError or make an "object" array.                *)
(***************************************************************************)
StartRead(obj, lines, env) ==
    [lines |-> lines, i |-> 1, phase |-> "scan", s |-> 0,
     positions |-> <<>>, species |-> <<>>, entry |-> obj.frac_coords,
     obj |-> obj, caught |-> FALSE, np_ragged |-> env]

\* the except branch
Except(st) ==
    [st EXCEPT !.obj.error = TRUE, !.obj.energy = Num(Sentinel),
               !.phase = "done", !.caught = TRUE]

\* the rows j..j+2 of a block, or <<>> when the file ends before them
Rows3(lines, j) ==
    IF j + 2 <= Len(lines) THEN <<lines[j], lines[j + 1], lines[j + 2]>> ELSE <<>>

\* 'Final stress tensor components': tokens 1 and 3 of the three lines from i+3
StressBlock(st) ==
    LET rows == Rows3(st.lines, st.i + 3) IN
    IF rows = <<>> \/ \E j \in 1..3 : Len(rows[j]) < 4
    THEN Except(st)
    ELSE LET stress == <<FloatOf(rows[1][2]), FloatOf(rows[2][2]), FloatOf(rows[3][2]),
                         FloatOf(rows[1][4]), FloatOf(rows[2][4]), FloatOf(rows[3][4])>>
         IN IF \E j \in 1..6 : stress[j].k = "raise"
            THEN Except(st)
            ELSE [st EXCEPT !.obj.stress = stress, !.i = st.i + 1]

\* 'Final Cartesian lattice vectors': three floats on each of the lines from i+2
LatticeBlock(st) ==
    LET rows == Rows3(st.lines, st.i + 2) IN
    IF rows = <<>> \/ \E j \in 1..3 : Len(rows[j]) < 3
    THEN Except(st)
    ELSE LET m == [j \in 1..3 |-> [c \in 1..3 |-> FloatOf(rows[j][c])]]
         IN IF \E j \in 1..3, c \in 1..3 : m[j][c].k = "raise"
            THEN Except(st)
            ELSE [st EXCEPT !.obj.lattice = m, !.i = st.i + 1]

FracSkip == 5

\* the branch of the if/elif chain that a line takes
Kind(line) ==
    IF EnergyMatch(line) THEN "energy"
    ELSE IF Contains(line, <<"Job", "Finished">>) THEN "finished"
    ELSE IF Contains(line, <<"Total", "CPU", "time">>) THEN "cputime"
    ELSE IF Contains(line, <<"Final", "stress", "tensor", "components">>) THEN "stress"
    ELSE IF Contains(line, <<"Cycle:">>) THEN "cycle"
    ELSE IF Contains(line, <<"Final", "fractional", "coordinates", "of", "atoms">>) THEN "frac"
    ELSE IF Contains(line, <<"Final", "Cartesian", "lattice", "vectors">>) THEN "lattice"
    ELSE "other"

\* one iteration of the for loop over the lines
ScanLine(st) ==
    LET line == st.lines[st.i]
        kind == Kind(line)
        next == [st EXCEPT !.i = st.i + 1]
    IN
    CASE kind = "energy" ->
            LET v == FloatOf(line[5]) IN
            IF v.k = "raise" THEN Except(st) ELSE [next EXCEPT !.obj.energy = v]
      [] kind = "finished" -> [next EXCEPT !.obj.optimized = TRUE]
      [] kind = "cputime" ->
            LET v == FloatOf(line[Len(line)]) IN
            IF v.k = "raise" THEN Except(st) ELSE [next EXCEPT !.obj.cputime = v]
      [] kind = "stress" -> StressBlock(st)
      [] kind = "cycle" ->
            IF Len(line) < 2 THEN Except(st)
            ELSE LET v == IntOf(line[2]) IN
                 IF v.k = "raise" THEN Except(st) ELSE [next EXCEPT !.obj.iter = v]
      [] kind = "frac" ->
            [st EXCEPT !.phase = "block", !.s = st.i + FracSkip,
                       !.positions = <<>>, !.species = <<>>,
                       !.entry = st.obj.frac_coords]
      [] kind = "lattice" -> LatticeBlock(st)
      [] OTHER -> next

\* np.array(positions) fails on rows of different lengths in builds that refuse them
Ragged(positions) ==
    \E a, b \in 1..Len(positions) : Len(positions[a]) # Len(positions[b])

\* lines[s].split()[3:6]: a slice, shorter when the line is
Slice3to6(line) ==
    IF Len(line) < 4 THEN <<>>
    ELSE SubSeq(line, 4, IF Len(line) < 6 THEN Len(line) ELSE 6)

\* a variant of BlockStep that stores the coordinates inside the while loop
BlockStepStoresEarly(st) ==
    LET s1 == st.s + 1 IN
    IF s1 > Len(st.lines) THEN Except(st)
    ELSE LET line == st.lines[s1] IN
         IF IsDashed(line) THEN
            IF Ragged(st.positions) /\ st.np_ragged = "raise"
            THEN Except(st)
            ELSE [st EXCEPT !.s = s1, !.obj.frac_coords = st.positions,
                            !.phase = "scan", !.i = st.i + 1]
         ELSE LET xyz == Slice3to6(line)
                  XYZ == [j \in 1..Len(xyz) |-> FloatOf(xyz[j])]
              IN IF (\E j \in 1..Len(XYZ) : XYZ[j].k = "raise") \/ Len(line) < 2
                 THEN Except(st)
                 ELSE [st EXCEPT !.s = s1,
                                 !.positions = Append(st.positions, XYZ),
                                 !.species = Append(st.species, line[2]),
                                 !.obj.frac_coords = Append(st.positions, XYZ)]

\* one iteration of the while loop over a 'Final fractional coordinates' block
BlockStep(st) ==
    LET s1 == st.s + 1 IN
    IF s1 > Len(st.lines) THEN Except(st)
    ELSE LET line == st.lines[s1] IN
         IF IsDashed(line) THEN
            IF Ragged(st.positions) /\ st.np_ragged = "raise"
            THEN Except(st)
            ELSE [st EXCEPT !.s = s1, !.obj.frac_coords = st.positions,
                            !.phase = "scan", !.i = st.i + 1]
         ELSE LET xyz == Slice3to6(line)
                  XYZ == [j \in 1..Len(xyz) |-> FloatOf(xyz[j])]
              IN IF (\E j \in 1..Len(XYZ) : XYZ[j].k = "raise") \/ Len(line) < 2
                 THEN Except(st)
                 ELSE [st EXCEPT !.s = s1,
                                 !.positions = Append(st.positions, XYZ),
                                 !.species = Append(st.species, line[2])]

\* the test after the for loop: np.isnan(self.energy)
AfterLoop(st) ==
    LET n == IsNan(st.obj.energy) IN
    IF n = "raise" THEN Except(st)
    ELSE IF n = "true"
         THEN [st EXCEPT !.obj.error = TRUE, !.obj.energy = Num(Sentinel),
                         !.phase = "done"]
         ELSE [st EXCEPT !.phase = "done"]

\* one step of read
ScanStep(st) ==
    IF st.phase = "block" THEN BlockStep(st)
    ELSE IF st.i > Len(st.lines) THEN AfterLoop(st)
    ELSE ScanLine(st)

RECURSIVE ScanAll(_)
ScanAll(st) == IF st.phase = "done" THEN st ELSE ScanAll(ScanStep(st))

\* read, from the readlines() on: the object after read has returned
ReadLines(obj, lines, env) == ScanAll(StartRead(obj, lines, env)).obj

(***************************************************************************)
(* Structures and the GULP object.  A structure is its kind (an ase Atoms  *)
(* or a pyxtal random_crystal), its species labels, its fractional         *)
(* coordinates and its cell, a 3x3 matrix.                                 *)
(***************************************************************************)
Row(x, y, z) == <<Num(x), Num(y), Num(z)>>
Cubic(a) == <<Row(a, 0, 0), Row(0, a, 0), Row(0, 0, a)>>

Struc(kind, sites, frac, lattice) ==
    [kind |-> kind, sites |-> sites, frac |-> frac, lattice |-> lattice]

NoStruc == Struc("None", <<>>, <<>>, <<>>)

DefaultSteps == 1000

\* GULP.__init__
NewGULP(struc, label, ff, opt, steps, exe, input, output, dump) ==
    [lattice |-> struc.lattice, frac_coords |-> struc.frac, sites |-> struc.sites,
     label |-> label, ff |-> ff, opt |-> opt, exe |-> exe, steps |-> steps,
     input |-> label \o input, output |-> label \o output, dump |-> dump,
     iter |-> Num(0), energy |-> None, stress |-> <<>>, optimized |-> FALSE,
     cputime |-> Num(0), error |-> FALSE]

\* GULP(struc, label=..., ff=..., opt=..., exe=...): the other arguments at their defaults
GULPWith(struc, label, ff, opt, exe) ==
    NewGULP(struc, label, ff, opt, DefaultSteps, exe, "gulp.in", "gulp.log", "opt.cif")

\* GULP.to_ase
to_ase(obj) == Struc("Atoms", obj.sites, obj.frac_coords, obj.lattice)

(***************************************************************************)
(* The report sections the model's output files are made of.               *)
(***************************************************************************)
Blank == <<>>
Dash == <<"--------------------">>

SegEnergy(v) == << <<"Total", "lattice", "energy", "=", v, "eV">> >>
SegEnergyKJ == << <<"Total", "lattice", "energy", "=", "-9", "kJ/(mole", "unit", "cells)">> >>
SegJob == << <<"Job", "Finished", "at", "12:00">> >>
SegCPU(v) == << <<"Total", "CPU", "time", v>> >>
SegCycle(v) == << <<"Cycle:", v, "Energy:", "-7">> >>

FracHead ==
    << <<"Final", "fractional", "coordinates", "of", "atoms", ":">>,
       Blank, Dash,
       <<"No.", "Atomic", "x", "y", "z", "Radius">>,
       <<"Label", "(Frac)", "(Frac)", "(Frac)", "(Angs)">>,
       Dash >>
AtomLine(n, sp, x, y, z) == <<n, sp, "c", x, y, z, "0">>

SegFrac1 == FracHead \o <<AtomLine("1", "C", "0", "1", "2"), Dash>>
SegFrac2 == FracHead \o <<AtomLine("1", "Si", "0", "0", "0"),
                          AtomLine("2", "O", "1", "1", "1"), Dash>>
\* a block the file ends in: no dashed line closes it
SegFracOpen == FracHead \o <<AtomLine("1", "C", "2", "2", "2")>>
\* a block with a line cut short after its first coordinate
SegFracShort == FracHead \o <<AtomLine("1", "C", "0", "1", "2"),
                              <<"2", "C", "c", "1">>, Dash>>

SegStress ==
    << <<"Final", "stress", "tensor", "components", "(kBar):">>,
       Blank, Dash,
       <<"xx", "1", "yz", "0">>, <<"yy", "2", "xz", "0">>, <<"zz", "3", "xy", "0">>,
       Dash >>
SegStressCut == SubSeq(SegStress, 1, 4)

SegLattice ==
    << <<"Final", "Cartesian", "lattice", "vectors", "(Angstroms)", ":">>,
       Blank,
       <<"3", "0", "0">>, <<"0", "3", "0">>, <<"0", "0", "3">> >>

Segments ==
    { SegEnergy("-7"), SegEnergy("NaN"), SegEnergy("****"), SegEnergyKJ,
      SegJob, SegCPU("2"), SegCycle("3"), SegCycle("1.0"),
      SegFrac1, SegFrac2, SegFracOpen, SegFracShort,
      SegStress, SegStressCut, SegLattice }

RECURSIVE Flatten(_)
Flatten(ss) == IF ss = <<>> THEN <<>> ELSE Head(ss) \o Flatten(Tail(ss))

\* the output files of the reader's specification
Files == { Flatten(ss) : ss \in UNION { [1..n -> Segments] : n \in 0..MaxSegs } }

NpBuilds == {"raise", "object"}

\* the structure the reader's object was constructed from
ReadStruc == Struc("Atoms", <<"C", "C">>, <<Row(0, 0, 0), Row(1, 1, 1)>>, Cubic(2))

\* no read in progress
NoRead == [phase |-> "none"]

(***************************************************************************)
(* The file system, and GULP.write.                                        *)
(***************************************************************************)
Put(f, name, content) ==
    [x \in DOMAIN f \cup {name} |-> IF x = name THEN content ELSE f[x]]
Remove(f, name) == [x \in DOMAIN f \ {name} |-> f[x]]
Exists(f, name) == name \in DOMAIN f

\* '{:12.6f}'.format(x)
Fmt12_6(x) == IF x.k = "nan" THEN "nan" ELSE ToString(x.v) \o ".000000"

\* Lattice.get_para(degree=True), for the orthogonal cells of the model
get_para(m) == <<m[1][1], m[2][2], m[3][3], Num(90), Num(90), Num(90)>>

Min(a, b) == IF a < b THEN a ELSE b
Distinct(sites) == { sites[j] : j \in 1..Len(sites) }

\* list(set(self.sites)): the distinct species, in an order the build chooses
SpeciesOrders(sites) ==
    { q \in [1..Cardinality(Distinct(sites)) -> Distinct(sites)] :
        \A a, b \in DOMAIN q : a # b => q[a] # q[b] }

\* the first line of the input file
ModeLine(opt) ==
    IF opt = "conv" THEN <<"opti", opt, "conjugate", "nosymmetry">>
    ELSE IF opt = "single" THEN <<"gradients", "noflag">>
    ELSE <<"opti", "stress", opt, "conjugate", "nosymmetry">>

\* a variant of MaxCycleLines that writes the directive for every kind
MaxCycleAlways(obj) == << <<"maxcycle", ToString(obj.steps)>> >>

\* the maxcycle directive, for the kinds other than 'single'
MaxCycleLines(obj) ==
    IF obj.opt # "single" THEN << <<"maxcycle", ToString(obj.steps)>> >> ELSE <<>>

\* what GULP.write writes, with the species in the order `species`
InputDeck(obj, species) ==
    LET para == get_para(obj.lattice)
        n == Min(Len(obj.frac_coords), Len(obj.sites))
    IN  <<ModeLine(obj.opt)>>
        \o <<Blank, <<"cell">>>>
        \o << [j \in 1..6 |-> Fmt12_6(para[j])] >>
        \o <<Blank, <<"fractional">>>>
        \o [j \in 1..n |-> <<obj.sites[j], Fmt12_6(obj.frac_coords[j][1]),
                             Fmt12_6(obj.frac_coords[j][2]),
                             Fmt12_6(obj.frac_coords[j][3]), "core">>]
        \o <<Blank, <<"Species">>>>
        \o [j \in 1..Len(species) |-> <<species[j], "core", species[j]>>]
        \o <<Blank, <<"library", obj.ff>>>>
        \o << <<"ewald", "10.0">> >>
        \o MaxCycleLines(obj)
        \o << <<"output", "cif", obj.dump>> >>

Event(p, op, arg) == [p |-> p, stage |-> IF p = 1 THEN chain.k ELSE 0, op |-> op, arg |-> arg]

Procs == {1, 2}

\* GULP.write
Write(p) ==
    /\ pc[p] = "new"
    /\ \E species \in SpeciesOrders(calc[p].sites) :
          fs' = Put(fs, calc[p].input, InputDeck(calc[p], species))
    /\ pc' = [pc EXCEPT ![p] = "written"]
    /\ trace' = Append(trace, Event(p, "write", calc[p].opt))
    /\ UNCHANGED <<rst, calc, made, chain, result, build>>

(***************************************************************************)
(* GULP.execute.  The command runs in the host shell: the shell opens the  *)
(* input file, creates the output file, and the external program, which    *)
(* the model does not look into, writes any report and may or may not      *)
(* reach its 'output cif' directive and write the dump file it names.      *)
(***************************************************************************)
Command(obj) == obj.exe \o "<" \o obj.input \o ">" \o obj.output

OutOK == SegEnergy("-7") \o SegCPU("2") \o SegJob
OutMoved == SegEnergy("-7") \o SegFrac2 \o SegLattice \o SegCPU("1")
OutOneAtom == SegEnergy("-7") \o SegFrac1 \o SegCPU("2")
OutShort == SegEnergy("-7") \o SegFracShort \o SegCPU("2")
OutNaN == SegEnergy("NaN") \o SegCPU("2")
OutOpen == SegEnergy("-7") \o SegCPU("3") \o SegFracOpen
OutEmpty == <<>>
OutFiles == {OutOK, OutMoved, OutOneAtom, OutShort, OutNaN, OutOpen, OutEmpty}

CifText == << <<"data_cif">> >>

\* the file the 'output cif' directive of an input file names
DumpNamed(deck) == deck[Len(deck)][3]

\* the file system after os.system(cmd); `ok` is whether the shell could run the
\* command at all, `report` what the program wrote, `dumps` whether it wrote the dump
System(f, obj, ok, report, dumps) ==
    IF ~ok \/ ~Exists(f, obj.input) THEN f
    ELSE LET f1 == Put(f, obj.output, report) IN
         IF dumps THEN Put(f1, DumpNamed(f[obj.input]), CifText) ELSE f1

Execute(p) ==
    /\ pc[p] = "written"
    /\ \E ok \in BOOLEAN, report \in OutFiles, dumps \in BOOLEAN :
          /\ fs' = System(fs, calc[p], ok, report, dumps)
          /\ made' = [made EXCEPT ![p] =
                        [output |-> ok /\ Exists(fs, calc[p].input),
                         dump |-> ok /\ Exists(fs, calc[p].input) /\ dumps]]
    /\ pc' = [pc EXCEPT ![p] = "executed"]
    /\ trace' = Append(trace, Event(p, "execute", Command(calc[p])))
    /\ UNCHANGED <<rst, calc, chain, result, build>>

\* GULP.read: open() raises when the output file does not exist
Read(p) ==
    /\ pc[p] = "executed"
    /\ IF Exists(fs, calc[p].output)
       THEN /\ calc' = [calc EXCEPT ![p] = ReadLines(calc[p], fs[calc[p].output], build)]
            /\ pc' = [pc EXCEPT ![p] = "read"]
       ELSE /\ pc' = [pc EXCEPT ![p] = "raised in read"]
            /\ UNCHANGED calc
    /\ trace' = Append(trace, Event(p, "read",
                    IF ~Exists(fs, calc[p].output) THEN "raised"
                    ELSE IF calc'[p].error THEN "error" ELSE "ok"))
    /\ UNCHANGED <<rst, fs, made, chain, result, build>>

\* os.remove of each name in turn, stopping at the first that does not exist
RECURSIVE RemoveEach(_, _)
RemoveEach(f, names) ==
    IF names = <<>> THEN [fs |-> f, ok |-> TRUE]
    ELSE IF ~Exists(f, Head(names)) THEN [fs |-> f, ok |-> FALSE]
    ELSE RemoveEach(Remove(f, Head(names)), Tail(names))

\* a variant of CleanOrder that removes the dump file first
CleanOrderDumpFirst(obj) == <<obj.dump, obj.input, obj.output>>

\* the order in which GULP.clean removes the files
CleanOrder(obj) == <<obj.input, obj.output, obj.dump>>

\* GULP.clean
Clean(p) ==
    /\ pc[p] = "read"
    /\ LET r == RemoveEach(fs, CleanOrder(calc[p])) IN
          /\ fs' = r.fs
          /\ pc' = [pc EXCEPT ![p] = IF r.ok THEN "cleaned" ELSE "raised in clean"]
    /\ trace' = Append(trace, Event(p, "clean", ""))
    /\ UNCHANGED <<rst, calc, made, chain, result, build>>

\* GULP.run: write, execute, read, clean, one after the other
RunStep == \E p \in Procs : Write(p) \/ Execute(p) \/ Read(p) \/ Clean(p)

(***************************************************************************)
(* single_optimize and optimize.  Caller 1 runs optimize(); chain holds    *)
(* its arguments and locals: pairs is zip(modes, optimizations), k the     *)
(* number of loop iterations started, times the CPU time read by each      *)
(* stage that returned without error.                                      *)
(***************************************************************************)
\* symmetrize_cell(struc, mode) inside try/except: the structure as an Atoms
\* object, or the structure unchanged when symmetrize_cell raised
Symmetrized(struc, mode) ==
    {struc, Struc("Atoms", struc.sites, struc.frac, struc.lattice)}

\* a + b on floats
AddF(a, b) == IF a.k = "nan" \/ b.k = "nan" THEN NaN ELSE Num(a.v + b.v)

\* ase.Atoms(sites, scaled_positions=frac_coords, cell=...) refuses arrays whose
\* lengths differ and positions that are not triples
AtomsAccepts(obj) ==
    /\ Len(obj.sites) = Len(obj.frac_coords)
    /\ \A j \in 1..Len(obj.frac_coords) : Len(obj.frac_coords[j]) = 3

\* the exe that single_optimize hands to GULP(): none, so GULP's default
ExeUsed(exe) == "gulp"

\* single_optimize up to calc.run(): symmetrize, then GULP(struc, ff=ff, opt=opt)
SingleOptimizeCall ==
    /\ pc[1] = "loop"
    /\ chain.k < Len(chain.pairs)
    /\ LET pair == chain.pairs[chain.k + 1] IN
       \E s \in Symmetrized(chain.struc, pair[1]) :
          calc' = [calc EXCEPT ![1] = GULPWith(s, "_", chain.ff, pair[2], ExeUsed(chain.exe))]
    /\ chain' = [chain EXCEPT !.k = chain.k + 1]
    /\ pc' = [pc EXCEPT ![1] = "new"]
    /\ UNCHANGED <<rst, fs, made, trace, result, build>>

\* a variant of ErrorResult that goes on to the next stage
ErrorResultContinues(c) == [pc |-> "loop", result |-> <<>>]

\* what optimize does when a stage reports an error: return
ErrorResult(c) == [pc |-> "returned", result |-> <<NoStruc, Num(Sentinel), Num(0), TRUE>>]

\* single_optimize after calc.run(), and the rest of the loop body of optimize
SingleOptimizeReturn ==
    /\ pc[1] = "cleaned"
    /\ IF calc[1].error
       THEN /\ pc' = [pc EXCEPT ![1] = ErrorResult(chain).pc]
            /\ result' = ErrorResult(chain).result
            /\ UNCHANGED chain
       ELSE IF ~AtomsAccepts(calc[1])
       THEN /\ pc' = [pc EXCEPT ![1] = "raised in to_ase"]
            /\ UNCHANGED <<chain, result>>
       ELSE /\ chain' = [chain EXCEPT !.struc = to_ase(calc[1]),
                                      !.energy = calc[1].energy,
                                      !.time_total = AddF(chain.time_total, calc[1].cputime),
                                      !.times = Append(chain.times, calc[1].cputime)]
            /\ pc' = [pc EXCEPT ![1] = "loop"]
            /\ UNCHANGED result
    /\ UNCHANGED <<rst, fs, calc, made, trace, build>>

\* optimize after the last stage
OptimizeReturn ==
    /\ pc[1] = "loop"
    /\ chain.k = Len(chain.pairs)
    /\ result' = <<chain.struc, chain.energy, chain.time_total, FALSE>>
    /\ pc' = [pc EXCEPT ![1] = "returned"]
    /\ UNCHANGED <<rst, fs, calc, made, chain, trace, build>>

Opts == {"conp", "conv", "single"}
Exes == {"gulp", "gulp-5.1"}
Strucs ==
    { Struc("Atoms", <<"C", "C">>, <<Row(0, 0, 0), Row(1, 1, 1)>>, Cubic(2)),
      Struc("random_crystal", <<"Si", "O", "O">>,
            <<Row(0, 0, 0), Row(1, 0, 0), Row(0, 1, 0)>>, Cubic(3)) }

PairSeqs == UNION { [1..n -> {"C"} \X Opts] : n \in 1..MaxStages }

NoCalc == [error |-> FALSE, label |-> "", opt |-> ""]
NoChain == [pairs |-> <<>>, ff |-> "", exe |-> "", k |-> 0, struc |-> NoStruc,
            energy |-> None, time_total |-> Num(0), times |-> <<>>]

Init ==
    /\ rst = NoRead
    /\ fs = <<>>
    /\ calc = [p \in Procs |-> NoCalc]
    /\ pc = [p \in Procs |-> IF p = 1 THEN "loop" ELSE "idle"]
    /\ made = [p \in Procs |-> [output |-> FALSE, dump |-> FALSE]]
    /\ \E ps \in PairSeqs, e \in Exes, s \in Strucs :
          chain = [pairs |-> ps, ff |-> "reax", exe |-> e, k |-> 0, struc |-> s,
                   energy |-> None, time_total |-> Num(0), times |-> <<>>]
    /\ trace = <<>>
    /\ result = <<>>
    /\ build \in NpBuilds

Next == SingleOptimizeCall \/ RunStep \/ SingleOptimizeReturn \/ OptimizeReturn

Spec == Init /\ [][Next]_vars

(***************************************************************************)
(* Two GULP objects, constructed with a label each, run at the same time.  *)
(***************************************************************************)
Labels == {"_", "a_"}

InitConc ==
    /\ rst = NoRead
    /\ fs = <<>>
    /\ \E l \in [Procs -> Labels] :
          calc = [p \in Procs |-> GULPWith(ReadStruc, l[p], "reax", "conp", "gulp")]
    /\ pc = [p \in Procs |-> "new"]
    /\ made = [p \in Procs |-> [output |-> FALSE, dump |-> FALSE]]
    /\ chain = NoChain
    /\ trace = <<>>
    /\ result = <<>>
    /\ build \in NpBuilds

NextConc == RunStep

SpecConc == InitConc /\ [][NextConc]_vars

(***************************************************************************)
(* GULP.read alone, one loop iteration at a time, on every output file     *)
(* made of at most MaxSegs sections.                                       *)
(***************************************************************************)
InitRead ==
    /\ build \in NpBuilds
    /\ \E f \in Files :
          rst = StartRead(GULPWith(ReadStruc, "_", "reax", "conp", "gulp"), f, build)
    /\ fs = <<>>
    /\ calc = [p \in Procs |-> NoCalc]
    /\ pc = [p \in Procs |-> "idle"]
    /\ made = [p \in Procs |-> [output |-> FALSE, dump |-> FALSE]]
    /\ chain = NoChain
    /\ trace = <<>>
    /\ result = <<>>

ReadStep ==
    /\ rst.phase \in {"scan", "block"}
    /\ rst' = ScanStep(rst)
    /\ UNCHANGED <<fs, calc, pc, made, chain, trace, result, build>>

NextRead == ReadStep

SpecRead == InitRead /\ [][NextRead]_vars

\* read runs to its end: the interpreter keeps executing the loop
FairSpecRead == SpecRead /\ WF_vars(ReadStep)

(***************************************************************************)
(* The claims.                                                             *)
(***************************************************************************)
ReadDone == rst.phase = "done"

NoEnergyLine(lines) == \A j \in 1..Len(lines) : ~EnergyMatch(lines[j])

\* the value token of the last line of the file that matches the energy pattern
LastEnergyIsNaN(lines) ==
    \E j \in 1..Len(lines) :
        /\ EnergyMatch(lines[j])
        /\ lines[j][5] = "NaN"
        /\ \A m \in (j + 1)..Len(lines) : ~EnergyMatch(lines[m])

\* C1: after read has returned, if no line of the file matched the energy pattern, or
\* the last value matched is NaN, or an exception was raised during the scan, then
\* error is true and energy is 100000.
C1_ReadFlagsFailure ==
    ReadDone =>
        ((NoEnergyLine(rst.lines) \/ LastEnergyIsNaN(rst.lines) \/ rst.caught)
            => (rst.obj.error /\ rst.obj.energy = Num(Sentinel)))

\* a file with a good energy line and then a NaN one, read without any exception
C1_Witness ==
    /\ ReadDone
    /\ LastEnergyIsNaN(rst.lines)
    /\ \E j \in 1..Len(rst.lines) : EnergyMatch(rst.lines[j]) /\ rst.lines[j][5] = "-7"
    /\ ~rst.caught
    /\ rst.obj.error

RECURSIVE SumF(_)
SumF(ts) == IF ts = <<>> THEN Num(0) ELSE AddF(Head(ts), SumF(Tail(ts)))

\* C2: optimize returns as its third component the CPU time accumulated over the
\* stages that ran: the sum over all stages on success, and (None, 100000, t, True)
\* with t the sum over the stages before the failing one when a stage errors.
C2_AccumulatedTime ==
    pc[1] = "returned" =>
        IF result[4]
        THEN result = <<NoStruc, Num(Sentinel), SumF(chain.times), TRUE>>
        ELSE result[3] = SumF(chain.times)

OpRank(op) ==
    CASE op = "write" -> 1 [] op = "execute" -> 2 [] op = "read" -> 3 [] op = "clean" -> 4

\* C3: the stages of optimize run in the order of the caller's pairs, each operation
\* of a stage once (write, execute, read, clean), and once a read has reported an
\* error nothing but the clean of that same stage follows.
C3_StagesInOrderAbortOnError ==
    /\ Len(trace) > 0 => (trace[1].stage = 1 /\ trace[1].op = "write")
    /\ \A j \in 1..(Len(trace) - 1) :
          \/ /\ trace[j + 1].stage = trace[j].stage
             /\ OpRank(trace[j + 1].op) = OpRank(trace[j].op) + 1
          \/ /\ trace[j + 1].stage = trace[j].stage + 1
             /\ trace[j].op = "clean" /\ trace[j + 1].op = "write"
    /\ \A j \in 1..Len(trace) :
          trace[j].op = "write" => trace[j].arg = chain.pairs[trace[j].stage][2]
    /\ \A j \in 1..Len(trace) :
          (trace[j].op = "read" /\ trace[j].arg = "error") =>
              \A m \in (j + 1)..Len(trace) :
                  trace[m].stage = trace[j].stage /\ trace[m].op = "clean"

\* the second of three stages failed and optimize returned without starting the third
C3_Witness ==
    /\ pc[1] = "returned"
    /\ result[4]
    /\ chain.k = 2
    /\ Len(chain.pairs) = 3
    /\ \A j \in 1..Len(trace) : trace[j].stage <= 2

RunEnded(p) ==
    pc[p] \in {"cleaned", "raised in clean", "raised in read", "raised in to_ase", "returned"}

\* C4: once a run has ended, by returning or by raising out of clean, and whatever
\* read found, the run's input file and output file no longer exist and clean was
\* the last operation, provided execute created the output file.
C4_TransientFilesRemoved ==
    \A p \in Procs :
        (RunEnded(p) /\ made[p].output) =>
            /\ ~Exists(fs, calc[p].input)
            /\ ~Exists(fs, calc[p].output)
            /\ trace[Len(trace)].op = "clean"

\* clean raised on the missing dump file after a read that reported an error
C4_Witness ==
    /\ pc[1] = "raised in clean"
    /\ made[1].output
    /\ ~made[1].dump
    /\ calc[1].error

TransientFiles(p) == {calc[p].input, calc[p].output, calc[p].dump}

\* C5: two runs constructed with distinct labels have disjoint transient files
\* (input, output, dump), and the clean of neither fails on a file that its own
\* execute created.
C5_DistinctLabelsIsolateRuns ==
    calc[1].label # calc[2].label =>
        /\ TransientFiles(1) \cap TransientFiles(2) = {}
        /\ \A p \in Procs :
              pc[p] = "raised in clean" => ~(made[p].output /\ made[p].dump)

\* C6: when the while loop of a 'Final fractional coordinates' block has ended at its
\* dashed line, the stored coordinates and the stored species are those of the block.
C6_BlockReplacesCoordsAndSpecies ==
    (rst.phase = "scan" /\ rst.i > 1 /\ Kind(rst.lines[rst.i - 1]) = "frac") =>
        /\ rst.obj.frac_coords = rst.positions
        /\ rst.obj.sites = rst.species

\* C7: the file write produces holds, in this order, the mode line of the kind, the
\* cell block, the fractional block with one line per atom, the Species block with
\* each distinct species once, the library and ewald directives, the maxcycle
\* directive exactly when the kind is not 'single', and the output cif directive.
C7_InputDeckLayout ==
    \A p \in Procs :
        pc[p] = "written" =>
            LET obj == calc[p]
                deck == fs[obj.input]
                n == Len(obj.sites)
                m == Cardinality(Distinct(obj.sites))
                tail == 10 + n + m
            IN
            /\ deck[1] = (CASE obj.opt = "conv" -> <<"opti", "conv", "conjugate", "nosymmetry">>
                            [] obj.opt = "single" -> <<"gradients", "noflag">>
                            [] OTHER -> <<"opti", "stress", obj.opt, "conjugate", "nosymmetry">>)
            /\ deck[2] = <<>> /\ deck[3] = <<"cell">> /\ Len(deck[4]) = 6
            /\ deck[5] = <<>> /\ deck[6] = <<"fractional">>
            /\ \A j \in 1..n :
                  Len(deck[6 + j]) = 5 /\ deck[6 + j][1] = obj.sites[j] /\ deck[6 + j][5] = "core"
            /\ deck[7 + n] = <<>> /\ deck[8 + n] = <<"Species">>
            /\ \A j \in 1..m : deck[8 + n + j] = <<deck[8 + n + j][1], "core", deck[8 + n + j][1]>>
            /\ { deck[8 + n + j][1] : j \in 1..m } = Distinct(obj.sites)
            /\ deck[9 + n + m] = <<>>
            /\ deck[tail] = <<"library", obj.ff>>
            /\ deck[tail + 1] = <<"ewald", "10.0">>
            /\ IF obj.opt = "single"
               THEN /\ Len(deck) = tail + 2
               ELSE /\ Len(deck) = tail + 3
                    /\ Len(deck[tail + 2]) = 2 /\ deck[tail + 2][1] = "maxcycle"
            /\ deck[Len(deck)] = <<"output", "cif", obj.dump>>

\* a single-point input file for a structure with a repeated species
C7_Witness ==
    /\ pc[1] = "written"
    /\ calc[1].opt = "single"
    /\ Len(calc[1].sites) > Cardinality(Distinct(calc[1].sites))
    /\ Exists(fs, calc[1].input)

\* C8: every execute of an optimize(exe=e) chain issues '<e> < input > output'.
C8_CallerExeInvoked ==
    pc[1] = "executed" =>
        trace[Len(trace)].arg = chain.exe \o "<" \o calc[1].input \o ">" \o calc[1].output

\* C9: read returns on every file, and when the while loop of a block runs past the
\* last line read returns with error true and the coordinates stored before the block.
C9_ReadTerminates ==
    /\ <>ReadDone
    /\ [][(rst.phase = "block" /\ rst.s + 1 > Len(rst.lines)) =>
            /\ rst'.phase = "done"
            /\ rst'.obj.error
            /\ rst'.obj.energy = Num(Sentinel)
            /\ rst'.obj.frac_coords = rst.entry]_vars

\* read has returned from a block that no dashed line closes, after an earlier block
\* of the same file had replaced the coordinates
C9_Witness ==
    /\ ReadDone
    /\ rst.caught
    /\ rst.i <= Len(rst.lines)
    /\ Kind(rst.lines[rst.i]) = "frac"
    /\ rst.s = Len(rst.lines)
    /\ \A j \in (rst.i + FracSkip + 1)..Len(rst.lines) : ~IsDashed(rst.lines[j])
    /\ Len(rst.positions) > 0
    /\ rst.obj.frac_coords # ReadStruc.frac
    /\ rst.obj.frac_coords = rst.entry

\* C10: after a read that reports no error, there are as many stored coordinate
\* triples as stored species labels, at every stage of an optimize chain.
C10_CoordsMatchSpecies ==
    (pc[1] \in {"read", "cleaned"} /\ ~calc[1].error) =>
        Len(calc[1].frac_coords) = Len(calc[1].sites)

====
